---- MODULE Spec2Model ----
(***************************************************************************)
(* The text-generation harness of examples/opt/model/test_text_gen.py      *)
(* (get_model, the alpa/opt inference_func closure with its step counter,  *)
(* WrappedInferenceFunc and the __main__ benchmark loop) and the           *)
(* benchmark driver of benchmark/parax/benchmark_gpt_bert.py               *)
(* (benchmark_all, benchmark_transformer_one_case), as one state machine.  *)
(* A run executes one of the two scripts, chosen in Init.                  *)
(*                                                                         *)
(* External collaborators are modelled by what the scripts see of them:    *)
(*  - the distributed executable is a deterministic function of (params,   *)
(*    input_ids, position_ids, cache) that may also raise;                 *)
(*  - tensors are abstracted to small integers (a digest of their content) *)
(*    and the logits to that digest plus their argmax token;               *)
(*  - the generation controller (transformers' GenerationMixin.generate,   *)
(*    greedy search) follows the generic protocol of the specification.    *)
(***************************************************************************)
EXTENDS Integers, Sequences, FiniteSets, TLC

VARIABLES
    script,           \* which script this run executes: "text_gen" | "gpt_bert"
    args,             \* parsed command line: [model, cluster]
    pc,               \* control point of the run
    exc,              \* the uncaught exception that ended the run, or "none"
    built,            \* what has been set up so far (models, meshes, executables)
    rows,             \* value rows this run appended to its result file
    model,            \* the WrappedInferenceFunc returned by get_model
    params,           \* closure: the loaded parameters of the executable
    step_ct,          \* closure: the nonlocal step counter of inference_func
    ep,               \* 0: warm-up generation, 1..NumPrompts: benchmark prompts
    input_ids,        \* generate: the token sequence so far
    past,             \* generate: model_kwargs["past"]
    call_ids,         \* __call__: its input_ids argument
    c0,               \* __call__: its past_key_values argument as received
    past_key_values,  \* __call__: the local past_key_values
    i,                \* __call__: the loop index
    ret,              \* __call__: the local ret
    inflight,         \* the request the executable is serving, if any
    invLog,           \* history: the inference_func invocations of this __call__
    outputs,          \* generate: the result of the last adapter call
    prompt_len,       \* history: the length of the prompt of this episode
    n_calls,          \* history: adapter calls made in this episode
    decoded,          \* history: invocations completed since the cache was last created
    speeds,           \* __main__: the per-prompt token counts behind speeds/tflopss
    logged,           \* __main__: the output_length printed for the last prompt
    num_gpus,         \* benchmark_all: the GPU count found
    gb_case,          \* benchmark_all: index of the benchmark case being run
    sessions,         \* callers of the adapter: per episode, its cache and tokens fed
    owner,            \* the episode whose adapter call is running
    n_fail            \* history: adapter calls that ended in an exception

mainVars == <<script, args, pc, exc, built, rows, model, params>>
genVars  == <<ep, input_ids, past, outputs, speeds, logged, prompt_len, n_calls>>
callVars == <<call_ids, c0, past_key_values, i, ret, inflight, invLog>>
gbVars   == <<num_gpus, gb_case>>
openVars == <<sessions, owner, n_fail>>
vars == <<mainVars, step_ct, decoded, genVars, callVars, gbVars, openVars>>

----------------------------------------------------------------------------
(* Program constants *)

eos_token_id == 2
max_length == 256
NumPrompts == 3
max_seq_len == 2048
pad == 1

(* Bounds of the model *)

MaxPromptLen == 3
MaxParam == 2
DigestMod == 5
MaxCallLen == 2
MaxFed == 3
MaxFail == 2

----------------------------------------------------------------------------
(* Values *)

\* Python's None for a cache, and a cache: the number of tokens written into
\* it (its fill pointer) and a digest of its content.
None == [is_none |-> TRUE, fill |-> 0, digest |-> 0]
Cache(fill, digest) == [is_none |-> FALSE, fill |-> fill, digest |-> digest]

\* init_cache_dis_array(executable, config, 1, dummy): the zero-filled cache.
init_cache == Cache(0, 0)

\* A result not yet assigned (Python: the name is unbound).
Unbound == [logits |-> [digest |-> -1, argmax |-> -1], past_key_values |-> None,
            hidden_states |-> -1, attentions |-> -1]

InferenceFuncOutput(logits, pkv, hidden_states, attentions) ==
    [logits |-> logits, past_key_values |-> pkv,
     hidden_states |-> hidden_states, attentions |-> attentions]

NoRequest == [busy |-> FALSE, input_ids |-> 0, position_ids |-> 0, cache |-> None]

\* Tokens other than the stop token, and what the tokenizer may return for a
\* prompt: any sequence of 1..MaxPromptLen tokens (the stop token included,
\* OPT's tokenizer uses it as the begin-of-sentence token too).
WordTokens == {3, 4}
PromptTokens == {eos_token_id, 3}
Prompts == UNION {[1..n -> PromptTokens] : n \in 1..MaxPromptLen}

ParamSet == 0..MaxParam

\* Two generation episodes that use the same model, each holding the cache
\* the adapter returned to it last and the tokens it has fed so far.
Episodes == {1, 2}
NewSession == [cache |-> None, fed |-> <<>>]

----------------------------------------------------------------------------
(* The distributed executable: executable(params, {input_ids, position_ids,  *)
(* cache}).  Opaque to the scripts; here a deterministic function whose      *)
(* result depends on every input.  The parameter family is chosen so that    *)
(* params 0 never emits the stop token and the others emit it sooner or      *)
(* later.                                                                    *)

NextDigest(prm, input_id, position_id, cache) ==
    (2 * cache.digest + input_id + position_id + prm) % DigestMod

NextToken(prm, digest, fill) ==
    IF prm # 0 /\ (digest + fill) % (prm + 2) = 0
    THEN eos_token_id
    ELSE 3 + (digest % 2)

Executable(prm, input_id, position_id, cache) ==
    LET d == NextDigest(prm, input_id, position_id, cache)
        f == cache.fill + 1
    IN  [logits |-> [digest |-> d, argmax |-> NextToken(prm, d, f)],
         attention_cache |-> Cache(f, d),
         \* get_model builds the executable with support_output_attentions and
         \* support_output_hidden_states left False: no diagnostics come back
         hidden_states |-> 0,
         attentions |-> 0]

----------------------------------------------------------------------------
(* get_model's alpa/opt inference_func, around the executable call *)

\* lines 181-183: no prior cache means the initial cache and a counter reset
InfCache(pkv) == IF pkv.is_none THEN init_cache ELSE pkv

\* Mutant: the counter is not reset when no cache is supplied.
InfStepCtNoReset(sc, pkv) == sc

InfStepCt(sc, pkv) == IF pkv.is_none THEN 0 ELSE sc

\* line 186
InfPositionIds(sc, pkv) == InfStepCt(sc, pkv) + pad + 1

\* lines 185-192: the request sent to the executable
InfRequest(sc, input_id, pkv) ==
    [busy |-> TRUE, input_ids |-> input_id,
     position_ids |-> InfPositionIds(sc, pkv), cache |-> InfCache(pkv)]

\* lines 193-199: the value returned once the executable has answered
InfReturn(output) ==
    InferenceFuncOutput(output.logits, output.attention_cache,
                        output.hidden_states, output.attentions)

\* The whole of a successful inference_func call: the position id it sends,
\* what it returns and the counter it leaves.
inference_func(sc, prm, input_id, pkv) ==
    LET req == InfRequest(sc, input_id, pkv)
    IN  [position_ids |-> req.position_ids,
         ret |-> InfReturn(Executable(prm, req.input_ids, req.position_ids, req.cache)),
         step_ct |-> InfStepCt(sc, pkv) + 1]

----------------------------------------------------------------------------
(* WrappedInferenceFunc *)

\* Python truth value of a cache argument: None is false; a cache is a
\* non-empty tuple of per-layer arrays, which is true.
Truthy(pkv) == ~pkv.is_none

Last(s) == s[Len(s)]

\* Mutant: the full history is passed on even when a cache exists.
PrepareFullSequence(ids, pst) ==
    [input_ids |-> ids, past_key_values |-> pst]

prepare_inputs_for_generation(ids, pst) ==
    [input_ids |-> IF Truthy(pst) THEN <<Last(ids)>> ELSE ids,
     past_key_values |-> pst]

----------------------------------------------------------------------------
(* get_model *)

TextGenModels == {"gpt2", "facebook/opt-125m", "alpa/opt-125m", "bloom-560m"}
Clusters == {"aws", "mbzuai", "gcp"}

\* Python's `sub in model_name` on the names above
Contains(sub, model_name) ==
    \/ sub = "gpt" /\ model_name = "gpt2"
    \/ sub = "facebook/opt" /\ model_name = "facebook/opt-125m"
    \/ sub = "alpa/opt" /\ model_name = "alpa/opt-125m"

NoModel == [inference_func |-> "unset", config |-> "unset",
            executable |-> "unset", model_config |-> "unset"]

WrappedInferenceFunc(inf, config, executable, model_config) ==
    [inference_func |-> inf, config |-> config,
     executable |-> executable, model_config |-> model_config]

\* The locals of get_model when control reaches line 204 or an exception
\* leaves the function, and what was set up on the way.
get_model_locals(model_name, cluster) ==
    IF Contains("gpt", model_name) THEN
        [raised |-> "none", built |-> {"raw_model"},
         inference_func |-> "gpt", inference_func_config |-> "raw_model.config",
         executable |-> "unbound", model_config |-> "raw_model.config"]
    ELSE IF Contains("facebook/opt", model_name) THEN
        [raised |-> "none", built |-> {"raw_model"},
         inference_func |-> "facebook/opt", inference_func_config |-> "InferenceFuncConfig",
         executable |-> "unbound", model_config |-> "raw_model.config"]
    ELSE IF Contains("alpa/opt", model_name) THEN
        IF cluster \in {"aws", "mbzuai"} THEN
            [raised |-> "none", built |-> {"alpa_init", "executable", "params", "init_cache"},
             inference_func |-> "alpa/opt", inference_func_config |-> "InferenceFuncConfig",
             executable |-> "pipeshard_executable", model_config |-> "opt_config"]
        ELSE
            [raised |-> "RuntimeError", built |-> {"alpa_init"},
             inference_func |-> "unbound", inference_func_config |-> "unbound",
             executable |-> "unbound", model_config |-> "unbound"]
    ELSE
        [raised |-> "none", built |-> {},
         inference_func |-> "unbound", inference_func_config |-> "unbound",
         executable |-> "unbound", model_config |-> "unbound"]

\* line 204: reading an unassigned local raises UnboundLocalError
get_model(model_name, cluster) ==
    LET l == get_model_locals(model_name, cluster)
    IN  IF l.raised # "none" THEN
            [raised |-> l.raised, built |-> l.built, model |-> NoModel]
        ELSE IF "unbound" \in {l.inference_func, l.inference_func_config,
                               l.executable, l.model_config} THEN
            [raised |-> "UnboundLocalError", built |-> l.built, model |-> NoModel]
        ELSE
            [raised |-> "none", built |-> l.built,
             model |-> WrappedInferenceFunc(l.inference_func, l.inference_func_config,
                                            l.executable, l.model_config)]

----------------------------------------------------------------------------
(* The state after argument parsing *)

GbModels == {"gpt", "bert", "t5"}
GpuCounts == {1, 2, 4, 8}

\* benchmark_suites of benchmark_all: the number of cases per GPU count
SuiteKeys == {1, 4, 8, 16}
SuiteLen(n) == IF n \in {1, 8} THEN 2 ELSE 0

Init ==
    /\ script \in {"text_gen", "gpt_bert"}
    /\ \/ /\ script = "text_gen"
          /\ args \in [model : TextGenModels, cluster : Clusters]
          /\ pc = "get_model"
       \/ /\ script = "gpt_bert"
          /\ args \in [model : GbModels, cluster : {"n/a"}]
          /\ pc = "benchmark_all"
    /\ exc = "none"
    /\ built = {}
    /\ rows = 0
    /\ model = NoModel
    /\ params = 0
    /\ step_ct = 0
    /\ decoded = 0
    /\ ep = 0
    /\ input_ids = <<>>
    /\ past = None
    /\ outputs = Unbound
    /\ speeds = <<>>
    /\ logged = 0
    /\ prompt_len = 0
    /\ n_calls = 0
    /\ call_ids = <<>>
    /\ c0 = None
    /\ past_key_values = None
    /\ i = 0
    /\ ret = Unbound
    /\ inflight = NoRequest
    /\ invLog = <<>>
    /\ num_gpus = 0
    /\ gb_case = 0
    /\ sessions = [e \in Episodes |-> NewSession]
    /\ owner = 0
    /\ n_fail = 0

\* An exception nobody catches ends the run.
Raise(e) == exc' = e /\ pc' = "error"

----------------------------------------------------------------------------
(* test_text_gen.py, __main__ *)

\* line 222: model = get_model(args.model, args.device, args.dummy, args.cluster);
\* load_params_dis_array loads some parameters, and line 175 sets step_ct.
GetModel ==
    /\ pc = "get_model"
    /\ LET r == get_model(args.model, args.cluster)
       IN  /\ built' = r.built
           /\ model' = r.model
           /\ IF r.raised = "none"
              THEN /\ params' \in ParamSet
                   /\ pc' = "main_loop"
                   /\ exc' = exc
              ELSE /\ params' = params
                   /\ Raise(r.raised)
    /\ step_ct' = 0
    /\ UNCHANGED <<script, args, rows, decoded, genVars, callVars, gbVars>>
    /\ UNCHANGED openVars

\* lines 226-228 (warm-up, ep = 0) and 248-254 (prompt ep): tokenize the
\* prompt and enter model.generate, which starts without a cache.
StartEpisode ==
    /\ pc = "main_loop"
    /\ ep <= NumPrompts
    /\ input_ids' \in Prompts
    /\ prompt_len' = Len(input_ids')
    /\ n_calls' = 0
    /\ past' = None
    /\ pc' = "gen_prepare"
    /\ UNCHANGED <<script, args, exc, built, rows, model, params, step_ct, decoded,
                   ep, outputs, speeds, logged, callVars, gbVars>>
    /\ UNCHANGED openVars

\* generate: model_inputs = self.prepare_inputs_for_generation(input_ids, past)
\* and the entry of self(**model_inputs), WrappedInferenceFunc.__call__.
GenPrepare ==
    /\ pc = "gen_prepare"
    /\ LET m == prepare_inputs_for_generation(input_ids, past)
       IN  /\ call_ids' = m.input_ids
           /\ c0' = m.past_key_values
           /\ past_key_values' = m.past_key_values
    /\ i' = 0
    /\ ret' = Unbound
    /\ invLog' = <<>>
    /\ n_calls' = n_calls + 1
    /\ pc' = "call_loop"
    /\ UNCHANGED <<script, args, exc, built, rows, model, params, step_ct, decoded,
                   ep, input_ids, past, outputs, speeds, logged, prompt_len,
                   inflight, gbVars>>
    /\ UNCHANGED openVars

\* line 100: input_ids[:, i:i+1]
CallSlice(ids, k) == ids[k + 1]

\* Mutant: the first result is kept and later ones are dropped.
CallKeepFirstRet(r, old) == IF old = Unbound THEN r ELSE old

\* line 100: ret = self.inference_func(...): the new result replaces the old
CallNextRet(r, old) == r

\* Mutant: the loop forgets line 104 and passes the same cache every time.
CallKeepPast(r, pkv) == pkv

\* line 104: past_key_values = ret.past_key_values
CallNextPast(r, pkv) == r.past_key_values

\* lines 99-103 and 181-192: one more loop iteration calls inference_func,
\* which sends its request to the executable and blocks.
Invoke ==
    /\ pc = "call_loop"
    /\ i < Len(call_ids)
    /\ LET tok == CallSlice(call_ids, i)
           req == InfRequest(step_ct, tok, past_key_values)
       IN  /\ inflight' = req
           /\ invLog' = Append(invLog,
                  [index |-> i, input_ids |-> tok, past_key_values |-> past_key_values,
                   step_ct |-> step_ct, position_ids |-> req.position_ids,
                   returned |-> FALSE, ret |-> Unbound])
    /\ step_ct' = InfStepCt(step_ct, past_key_values)
    /\ decoded' = IF past_key_values.is_none THEN 0 ELSE decoded
    /\ built' = built \cup {"invoked"}
    /\ pc' = "exec"
    /\ UNCHANGED <<script, args, exc, rows, model, params, genVars,
                   call_ids, c0, past_key_values, i, ret, gbVars>>
    /\ UNCHANGED openVars

\* lines 193-199 and 104: the executable answers, inference_func counts the
\* step and returns, and the loop keeps the result and its cache.
ExecReturn ==
    /\ pc = "exec"
    /\ LET output == Executable(params, inflight.input_ids, inflight.position_ids,
                                inflight.cache)
           r == InfReturn(output)
       IN  /\ ret' = CallNextRet(r, ret)
           /\ past_key_values' = CallNextPast(CallNextRet(r, ret), past_key_values)
           /\ invLog' = [invLog EXCEPT ![Len(invLog)].returned = TRUE,
                                       ![Len(invLog)].ret = r]
    /\ step_ct' = step_ct + 1
    /\ decoded' = decoded + 1
    /\ i' = i + 1
    /\ inflight' = NoRequest
    /\ pc' = "call_loop"
    /\ UNCHANGED <<script, args, exc, built, rows, model, params, genVars,
                   call_ids, c0, gbVars>>
    /\ UNCHANGED openVars

\* Mutant: the loop swallows the failure and issues the invocation again.
ExecFailRetry ==
    /\ pc = "exec"
    /\ inflight' = NoRequest
    /\ exc' = "RemoteExecutionError"
    /\ pc' = "call_loop"
    /\ UNCHANGED <<script, args, built, rows, model, params, step_ct, decoded, genVars,
                   call_ids, c0, past_key_values, i, ret, invLog, gbVars>>
    /\ UNCHANGED openVars

\* line 188: the executable raises (device fault, network partition, ...);
\* neither inference_func, __call__, generate nor __main__ catches it.
ExecFail ==
    /\ pc = "exec"
    /\ inflight' = NoRequest
    /\ Raise("RemoteExecutionError")
    /\ UNCHANGED <<script, args, built, rows, model, params, step_ct, decoded, genVars,
                   call_ids, c0, past_key_values, i, ret, invLog, gbVars>>
    /\ UNCHANGED openVars

\* line 105: return ret
CallReturn ==
    /\ pc = "call_loop"
    /\ i >= Len(call_ids)
    /\ outputs' = ret
    /\ pc' = "gen_select"
    /\ UNCHANGED <<script, args, exc, built, rows, model, params, step_ct, decoded,
                   ep, input_ids, past, speeds, logged, prompt_len, n_calls,
                   callVars, gbVars>>
    /\ UNCHANGED openVars

\* generate (greedy, do_sample=False): take the argmax of the logits, append
\* it, keep the returned cache as past, and stop at the stop token or at
\* max_length tokens.
GenSelect ==
    /\ pc = "gen_select"
    /\ LET next_token == outputs.logits.argmax
           ids == Append(input_ids, next_token)
       IN  /\ input_ids' = ids
           /\ pc' = IF next_token = eos_token_id \/ Len(ids) >= max_length
                    THEN "gen_done" ELSE "gen_prepare"
    /\ past' = outputs.past_key_values
    /\ UNCHANGED <<script, args, exc, built, rows, model, params, step_ct, decoded,
                   ep, outputs, speeds, logged, prompt_len, n_calls, callVars, gbVars>>
    /\ UNCHANGED openVars

\* Mutant: the metrics count the newly generated tokens only.
EpisodeEndNewTokens ==
    /\ pc = "gen_done"
    /\ IF ep = 0
       THEN UNCHANGED <<logged, speeds>>
       ELSE /\ logged' = Len(input_ids)
            /\ speeds' = Append(speeds, Len(input_ids) - prompt_len)
    /\ ep' = ep + 1
    /\ pc' = "main_loop"
    /\ UNCHANGED <<script, args, exc, built, rows, model, params, step_ct, decoded,
                   input_ids, past, outputs, prompt_len, n_calls, callVars, gbVars>>
    /\ UNCHANGED openVars

\* lines 255-275: after a prompt, print output_length and derive the metrics
\* from gen_len; the warm-up output (ep = 0) is dropped.
EpisodeEnd ==
    /\ pc = "gen_done"
    /\ IF ep = 0
       THEN UNCHANGED <<logged, speeds>>
       ELSE /\ logged' = Len(input_ids)
            /\ speeds' = Append(speeds, Len(input_ids))
    /\ ep' = ep + 1
    /\ pc' = "main_loop"
    /\ UNCHANGED <<script, args, exc, built, rows, model, params, step_ct, decoded,
                   input_ids, past, outputs, prompt_len, n_calls, callVars, gbVars>>
    /\ UNCHANGED openVars

\* lines 277-283: after the last prompt, average and append one row
WriteTsv ==
    /\ pc = "main_loop"
    /\ ep > NumPrompts
    /\ rows' = rows + 1
    /\ pc' = "done"
    /\ UNCHANGED <<script, args, exc, built, model, params, step_ct, decoded,
                   genVars, callVars, gbVars>>
    /\ UNCHANGED openVars

----------------------------------------------------------------------------
(* benchmark_gpt_bert.py *)

\* lines 239-252: look the suite of this GPU count up
BenchmarkAll ==
    /\ pc = "benchmark_all"
    /\ num_gpus' \in GpuCounts
    /\ IF num_gpus' \in SuiteKeys
       THEN pc' = "gb_loop" /\ exc' = exc
       ELSE Raise("KeyError")
    /\ UNCHANGED <<script, args, built, rows, model, params, step_ct, decoded,
                   genVars, callVars, gb_case>>
    /\ UNCHANGED openVars

\* lines 252-253 and 72-108: the next case starts by setting the mesh up
GbSetupMesh ==
    /\ pc = "gb_loop"
    /\ gb_case < SuiteLen(num_gpus)
    /\ built' = built \cup {"mesh"}
    /\ pc' = "gb_model"
    /\ UNCHANGED <<script, args, exc, rows, model, params, step_ct, decoded,
                   genVars, callVars, gbVars>>
    /\ UNCHANGED openVars

\* lines 145-164: build the model of args.model, or raise ValueError
GbInitModel ==
    /\ pc = "gb_model"
    /\ IF args.model \in {"gpt", "bert"}
       THEN /\ built' = built \cup {"model"}
            /\ pc' = "gb_compile"
            /\ exc' = exc
       ELSE /\ built' = built
            /\ Raise("ValueError")
    /\ UNCHANGED <<script, args, rows, model, params, step_ct, decoded,
                   genVars, callVars, gbVars>>
    /\ UNCHANGED openVars

\* lines 166-176: init the parameters, compile and shard
GbCompile ==
    /\ pc = "gb_compile"
    /\ built' = built \cup {"executable"}
    /\ pc' = "gb_run"
    /\ UNCHANGED <<script, args, exc, rows, model, params, step_ct, decoded,
                   genVars, callVars, gbVars>>
    /\ UNCHANGED openVars

\* lines 186-188: benchmark_func runs the train step
GbBenchmark ==
    /\ pc = "gb_run"
    /\ built' = built \cup {"invoked"}
    /\ pc' = "gb_write"
    /\ UNCHANGED <<script, args, exc, rows, model, params, step_ct, decoded,
                   genVars, callVars, gbVars>>
    /\ UNCHANGED openVars

\* ... or the train step fails on the devices
GbBenchmarkFail ==
    /\ pc = "gb_run"
    /\ built' = built \cup {"invoked"}
    /\ Raise("RemoteExecutionError")
    /\ UNCHANGED <<script, args, rows, model, params, step_ct, decoded,
                   genVars, callVars, gbVars>>
    /\ UNCHANGED openVars

\* lines 204-213: write_tsv appends the row of this case
GbWriteTsv ==
    /\ pc = "gb_write"
    /\ rows' = rows + 1
    /\ pc' = "gb_shutdown"
    /\ UNCHANGED <<script, args, exc, built, model, params, step_ct, decoded,
                   genVars, callVars, gbVars>>
    /\ UNCHANGED openVars

\* line 215 and the loop of line 252
GbShutdown ==
    /\ pc = "gb_shutdown"
    /\ built' = built \ {"mesh"}
    /\ gb_case' = gb_case + 1
    /\ pc' = "gb_loop"
    /\ UNCHANGED <<script, args, exc, rows, model, params, step_ct, decoded,
                   genVars, callVars, num_gpus>>
    /\ UNCHANGED openVars

\* the suite is exhausted: benchmark_all returns and the script ends
GbDone ==
    /\ pc = "gb_loop"
    /\ gb_case >= SuiteLen(num_gpus)
    /\ pc' = "done"
    /\ UNCHANGED <<script, args, exc, built, rows, model, params, step_ct, decoded,
                   genVars, callVars, gbVars>>
    /\ UNCHANGED openVars

----------------------------------------------------------------------------

Next ==
    \/ GetModel
    \/ StartEpisode
    \/ GenPrepare
    \/ Invoke
    \/ ExecReturn
    \/ ExecFail
    \/ CallReturn
    \/ GenSelect
    \/ EpisodeEnd
    \/ WriteTsv
    \/ BenchmarkAll
    \/ GbSetupMesh
    \/ GbInitModel
    \/ GbCompile
    \/ GbBenchmark
    \/ GbBenchmarkFail
    \/ GbWriteTsv
    \/ GbShutdown
    \/ GbDone

Spec == Init /\ [][Next]_vars

----------------------------------------------------------------------------
(* The adapter as a library: get_model() returns the WrappedInferenceFunc to
   its caller, and any code holding it may call it, with no cache or with a
   cache an earlier call returned, for one generation or for several. *)

\* line 222 done for alpa/opt on a known cluster: the model is loaded and
\* line 175 has set the counter; the callers have made no call yet.
OpenInit ==
    /\ script = "text_gen"
    /\ args = [model |-> "alpa/opt-125m", cluster |-> "aws"]
    /\ pc = "open_idle"
    /\ exc = "none"
    /\ built = get_model(args.model, args.cluster).built
    /\ rows = 0
    /\ model = get_model(args.model, args.cluster).model
    /\ params \in ParamSet
    /\ step_ct = 0
    /\ decoded = 0
    /\ ep = 0
    /\ input_ids = <<>>
    /\ past = None
    /\ outputs = Unbound
    /\ speeds = <<>>
    /\ logged = 0
    /\ prompt_len = 0
    /\ n_calls = 0
    /\ call_ids = <<>>
    /\ c0 = None
    /\ past_key_values = None
    /\ i = 0
    /\ ret = Unbound
    /\ inflight = NoRequest
    /\ invLog = <<>>
    /\ num_gpus = 0
    /\ gb_case = 0
    /\ sessions = [e \in Episodes |-> NewSession]
    /\ owner = 0
    /\ n_fail = 0

\* The callers' tokens: line 186 computes the position id from the counter
\* alone, whatever the token is, so one word token stands for all of them.
OpenTokens == {t \in WordTokens : \A u \in WordTokens : t <= u}

\* The token sequences a caller passes in one adapter call
CallInputs == UNION {[1..n -> OpenTokens] : n \in 1..MaxCallLen}

\* lines 93-98: an episode calls the adapter with some tokens and the cache
\* it holds (None before its first call has returned).
OpenCall ==
    /\ pc = "open_idle"
    /\ \E e \in Episodes, ids \in CallInputs :
         /\ Len(sessions[e].fed) + Len(ids) <= MaxFed
         /\ owner' = e
         /\ call_ids' = ids
         /\ c0' = sessions[e].cache
         /\ past_key_values' = sessions[e].cache
    /\ i' = 0
    /\ ret' = Unbound
    /\ invLog' = <<>>
    /\ pc' = "call_loop"
    /\ UNCHANGED <<script, args, exc, built, rows, model, params,
                   step_ct, decoded, genVars, inflight, gbVars,
                   sessions, n_fail>>

\* The frame of __call__ is gone once the call has returned or raised.
OpenLeaveCall ==
    /\ call_ids' = <<>>
    /\ c0' = None
    /\ past_key_values' = None
    /\ i' = 0
    /\ ret' = Unbound
    /\ inflight' = NoRequest
    /\ invLog' = <<>>
    /\ owner' = 0
    /\ pc' = "open_idle"

\* line 105: return ret; the episode keeps the returned cache for its next
\* call, as generate does with model_kwargs["past"].
OpenReturn ==
    /\ pc = "call_loop"
    /\ i >= Len(call_ids)
    /\ sessions' = [sessions EXCEPT ![owner] =
                       [cache |-> ret.past_key_values,
                        fed |-> sessions[owner].fed \o call_ids]]
    /\ OpenLeaveCall
    /\ UNCHANGED <<script, args, exc, built, rows, model, params,
                   step_ct, decoded, genVars, gbVars, n_fail>>

\* Mutant: the counter is advanced although the executable raised, as if
\* line 195 stood in a finally clause.
OpenFailCounts ==
    /\ pc = "exec"
    /\ n_fail < MaxFail
    /\ inflight' = NoRequest
    /\ n_fail' = n_fail + 1
    /\ step_ct' = step_ct + 1
    /\ pc' = "open_failed"
    /\ UNCHANGED <<script, args, exc, built, rows, model, params,
                   decoded, genVars, call_ids, c0, past_key_values,
                   i, ret, invLog, gbVars, sessions, owner>>

\* line 188: the executable raises; the exception leaves inference_func and
\* __call__ before lines 195 and 104-105 run.
OpenFail ==
    /\ pc = "exec"
    /\ n_fail < MaxFail
    /\ inflight' = NoRequest
    /\ n_fail' = n_fail + 1
    /\ pc' = "open_failed"
    /\ UNCHANGED <<script, args, exc, built, rows, model, params,
                   step_ct, decoded, genVars, call_ids, c0, past_key_values,
                   i, ret, invLog, gbVars, sessions, owner>>

\* The caller catches the exception: it has received nothing and still holds
\* the cache it passed; it may call again.
OpenCatch ==
    /\ pc = "open_failed"
    /\ OpenLeaveCall
    /\ UNCHANGED <<script, args, exc, built, rows, model, params,
                   step_ct, decoded, genVars, gbVars, sessions, n_fail>>

\* An episode ends and its caller starts the next one without a cache, as
\* lines 226-228 and 253-254 do one generation after another.
OpenNewEpisode ==
    /\ pc = "open_idle"
    /\ \E e \in Episodes :
         /\ sessions[e] # NewSession
         /\ sessions' = [sessions EXCEPT ![e] = NewSession]
    /\ UNCHANGED <<script, args, pc, exc, built, rows, model, params,
                   step_ct, decoded, genVars, callVars, gbVars,
                   owner, n_fail>>

OpenNext ==
    \/ OpenCall
    \/ Invoke
    \/ ExecReturn
    \/ OpenFail
    \/ OpenCatch
    \/ OpenReturn
    \/ OpenNewEpisode

OpenSpec == OpenInit /\ [][OpenNext]_vars

----------------------------------------------------------------------------
(* Properties *)

Returned(k) == invLog[k].returned

\* C1: an adapter call over N >= 1 tokens invokes the inference function
\* exactly N times in token order: invocation k gets the single token at
\* position k and the cache returned by invocation k-1 (the call's own
\* argument for the first), and an invocation is issued only after every
\* earlier one has returned, so at most one is in flight.
C1_InvocationsInTokenOrder ==
    /\ Len(invLog) <= Len(call_ids)
    /\ \A k \in 1..Len(invLog) :
          /\ invLog[k].index = k - 1
          /\ invLog[k].input_ids = call_ids[k]
          /\ invLog[k].past_key_values =
                 IF k = 1 THEN c0 ELSE invLog[k - 1].ret.past_key_values
          /\ k < Len(invLog) => Returned(k)
          /\ ~Returned(k) => pc \in {"exec", "error"}
    /\ inflight.busy <=> pc = "exec"
    /\ pc = "exec" => Len(invLog) = i + 1 /\ ~Returned(i + 1)
    /\ pc = "call_loop" => Len(invLog) = i
    /\ pc = "gen_select" =>
          /\ Len(call_ids) >= 1
          /\ Len(invLog) = Len(call_ids)
          /\ \A k \in 1..Len(invLog) : Returned(k)

C1_Witness ==
    /\ pc = "gen_select"
    /\ Len(invLog) = 3
    /\ c0.is_none
    /\ invLog[3].past_key_values = invLog[2].ret.past_key_values
    /\ invLog[2].past_key_values # invLog[3].past_key_values

\* C2: what an adapter call returns is exactly the result of its last
\* invocation (logits, final cache, diagnostics of that invocation), whatever
\* the earlier invocations returned.
C2_ReturnsLastResult ==
    pc = "gen_select" =>
        /\ outputs = invLog[Len(call_ids)].ret
        /\ outputs.logits = invLog[Len(call_ids)].ret.logits
        /\ outputs.past_key_values = past_key_values
        /\ outputs.past_key_values.fill = c0.fill + Len(call_ids)

C2_Witness ==
    /\ pc = "gen_select"
    /\ Len(invLog) >= 2
    /\ \A k \in 1..(Len(invLog) - 1) : invLog[k].ret.logits # outputs.logits

\* C3: prepare_inputs_for_generation hands the adapter the last token alone
\* when a cache exists and the whole sequence when none does, and the cache
\* itself unchanged; so the priming call of an episode invokes the executable
\* once per prompt token and every later call exactly once.
C3_PrepareInputs ==
    pc \in {"call_loop", "exec", "gen_select"} =>
        /\ c0 = past
        /\ past.is_none => call_ids = input_ids
        /\ ~past.is_none => call_ids = <<input_ids[Len(input_ids)]>>
        /\ n_calls = 1 <=> past.is_none
        /\ (pc = "gen_select" /\ n_calls = 1) => Len(invLog) = prompt_len
        /\ (pc = "gen_select" /\ n_calls > 1) => Len(invLog) = 1

C3_Witness ==
    /\ pc = "gen_select"
    /\ n_calls = 3
    /\ prompt_len = 2
    /\ Len(invLog) = 1

\* C4: starting from no cache, once K tokens have been decoded the step
\* counter is K, the fill pointer of the cache that holds them, for every K
\* the harness can reach (at most max_seq_len), whether the tokens came in one
\* multi-token call or one per call.
C4_StepCounterIsTokensDecoded ==
    /\ step_ct = decoded
    /\ decoded <= max_seq_len
    /\ pc = "exec" => step_ct = inflight.cache.fill
    /\ (pc \in {"call_loop", "gen_select"} /\ ~past_key_values.is_none) =>
           step_ct = past_key_values.fill
    /\ pc = "gen_select" => step_ct = Len(input_ids)

C4_Witness ==
    /\ pc = "gen_select"
    /\ ep = 2
    /\ prompt_len = 2
    /\ n_calls > 1
    /\ decoded = max_length - 1

\* C5: for the distributed backend a call without a cache and a call with the
\* freshly reset cache are the same call in every reachable state: same
\* position id sent, same result, same step counter left.
C5_NoCacheEqualsFreshCache ==
    model # NoModel =>
        \A tok \in PromptTokens \cup WordTokens :
            inference_func(step_ct, params, tok, None)
                = inference_func(step_ct, params, tok, init_cache)

\* C6: a failing executable invocation ends the adapter call and the run with
\* the exception: the invocation is not issued again, the remaining tokens
\* are never sent, no result comes back and nothing runs afterwards.
C6_FailurePropagates ==
    [][script = "text_gen" =>
          /\ exc = "none"
          /\ exc' = "RemoteExecutionError" =>
                /\ pc = "exec" /\ pc' = "error"
                /\ ~inflight'.busy
                /\ invLog' = invLog
                /\ Len(invLog) = i + 1 /\ ~Returned(i + 1)
                /\ \A k \in 1..Len(invLog) : invLog[k].index = k - 1
                /\ ret' = ret /\ outputs' = outputs /\ past' = past
                /\ input_ids' = input_ids
                /\ speeds' = speeds /\ rows' = rows]_vars

C6_Witness ==
    /\ script = "text_gen"
    /\ exc = "RemoteExecutionError"
    /\ pc = "error"
    /\ Len(call_ids) = 3
    /\ Len(invLog) = 2
    /\ i = 1

\* C7: get_model completes for a model name of each of the three families and
\* returns a WrappedInferenceFunc with inference_func, config, executable and
\* model_config all set.
C7_ThreeBackends ==
    (/\ script = "text_gen"
     /\ pc # "get_model"
     /\ args.model \in {"gpt2", "facebook/opt-125m", "alpa/opt-125m"}
     /\ args.cluster \in {"aws", "mbzuai"}) =>
        /\ exc # "UnboundLocalError"
        /\ model.inference_func # "unset"
        /\ model.config # "unset"
        /\ model.executable # "unset"
        /\ model.model_config # "unset"

\* The run was started with a model name or a cluster identifier the script
\* does not know.
Unrecognized ==
    \/ /\ script = "text_gen"
       /\ \/ \A sub \in {"gpt", "facebook/opt", "alpa/opt"} : ~Contains(sub, args.model)
          \/ args.cluster \notin {"aws", "mbzuai"}
    \/ /\ script = "gpt_bert"
       /\ args.model \notin {"gpt", "bert"}

\* C8: a run started with an unrecognized model name or cluster never
\* completes, and by the time it has failed no model or device mesh was set
\* up, no executable was built or invoked and no row was written.
C8_ConfigurationErrorImmediate ==
    Unrecognized =>
        /\ pc # "done"
        /\ built \cap {"raw_model", "mesh", "model", "executable", "invoked"} = {}
        /\ rows = 0

\* C9: a run that ends in a failure has appended no value row to its result
\* file.
C9_NoRowsAfterFailure ==
    pc = "error" => rows = 0

\* Where a generation stands: it has stopped only at the first generated stop
\* token or at max_length tokens, and the harness logs and uses its length.
StopsAtEosOrMaxLength ==
    /\ Len(input_ids) <= max_length
    /\ \A k \in (prompt_len + 1)..(Len(input_ids) - 1) : input_ids[k] # eos_token_id
    /\ pc = "gen_done" =>
          /\ Len(input_ids) > prompt_len
          /\ input_ids[Len(input_ids)] = eos_token_id \/ Len(input_ids) = max_length
    /\ (pc \in {"gen_prepare", "call_loop", "exec", "gen_select"} /\ n_calls > 0) =>
          /\ Len(input_ids) < max_length
          /\ Len(input_ids) > prompt_len => input_ids[Len(input_ids)] # eos_token_id
    /\ (pc = "main_loop" /\ ep >= 2) =>
          /\ logged = Len(input_ids)
          /\ speeds[Len(speeds)] = Len(input_ids)


GenPcs == {"gen_prepare", "call_loop", "exec", "gen_select"}

\* Steps left before the next token is appended, at most.
GenRank ==
    CASE pc = "gen_prepare" -> 2 * Len(input_ids) + 3
      [] pc = "call_loop"   -> 2 * (Len(call_ids) - i) + 2
      [] pc = "exec"        -> 2 * (Len(call_ids) - i) + 1
      [] OTHER              -> 1

\* C10: greedy generation through the adapter with max_length 256 always
\* terminates: every step of a generation either appends a token or brings
\* the next append nearer, the sequence never passes 256 tokens, and the
\* generation ends at the first generated stop token or at exactly 256
\* tokens; the length of the returned sequence is the token count the
\* harness prints and feeds into its metrics.
C10_GenerationTerminates ==
    [][/\ StopsAtEosOrMaxLength'
       /\ (pc \in GenPcs /\ pc' \notin {"gen_done", "error"}) =>
             /\ pc' \in GenPcs
             /\ Len(input_ids') <= max_length
             /\ \/ Len(input_ids') = Len(input_ids) + 1
                \/ input_ids' = input_ids /\ GenRank' < GenRank]_vars

C10_Witness ==
    /\ pc = "main_loop"
    /\ ep = 2
    /\ prompt_len = 3
    /\ Len(input_ids) = max_length
    /\ input_ids[max_length] # eos_token_id
    /\ speeds = <<max_length>>
    /\ logged = max_length


\* C12: over the generations run one after another on the model (warm-up,
\* then each prompt) the step counter never decreases inside an episode: it
\* goes down only to zero and only in the first invocation of an episode,
\* the one that receives no prior cache; so that invocation sends position
\* id pad + 1 however long the earlier episodes were.
C12_ResetOnlyAtEpisodeStart ==
    [][/\ step_ct' < step_ct =>
             /\ step_ct' = 0
             /\ pc = "call_loop" /\ pc' = "exec"
             /\ past_key_values.is_none
             /\ n_calls = 1 /\ i = 0
       /\ (pc = "call_loop" /\ pc' = "exec" /\ n_calls = 1 /\ i = 0) =>
             /\ past_key_values.is_none
             /\ step_ct' = 0
             /\ inflight'.position_ids = pad + 1
       /\ (pc = "call_loop" /\ pc' = "exec" /\ ~(n_calls = 1 /\ i = 0)) =>
             /\ ~past_key_values.is_none
             /\ step_ct' = step_ct]_vars

C12_Witness ==
    /\ pc = "exec"
    /\ ep = 2
    /\ speeds = <<max_length>>
    /\ n_calls = 1
    /\ i = 0
    /\ step_ct = 0
    /\ inflight.position_ids = pad + 1


\* C11: at every invocation of the executable, whatever calls came before and
\* whatever cache the caller holds, the position id sent is the step counter
\* + pad + 1 and also the number of tokens in the cache sent + pad + 1.
C11_PositionFollowsCacheFill ==
    pc = "exec" =>
        /\ inflight.position_ids = step_ct + pad + 1
        /\ inflight.position_ids = inflight.cache.fill + pad + 1


\* The cache an episode holds after feeding the tokens fed when nothing else
\* uses the model: invocation k starts from the cache of invocation k-1 (the
\* initial cache for the first) and sends position id (k-1) + pad + 1.
RECURSIVE AloneCache(_, _)
AloneCache(prm, fed) ==
    IF fed = <<>>
    THEN init_cache
    ELSE LET n == Len(fed)
         IN  Executable(prm, fed[n], (n - 1) + pad + 1,
                        AloneCache(prm, SubSeq(fed, 1, n - 1))).attention_cache

\* C13: two episodes that interleave their adapter calls on one model do not
\* disturb each other: as long as no call has failed, every invocation sends
\* the position id the calling episode would send alone, and every episode
\* holds the cache it would hold alone.
C13_EpisodesIsolated ==
    n_fail = 0 =>
        /\ pc = "exec" =>
              inflight.position_ids = Len(sessions[owner].fed) + i + pad + 1
        /\ \A e \in Episodes :
              sessions[e].fed # <<>> =>
                  sessions[e].cache = AloneCache(params, sessions[e].fed)


\* C14 as stated: after any calls the step counter is the number of
\* successful invocations since the most recent call without a cache; and
\* when an invocation has failed, the counter is what it was when that
\* invocation was made, it is i above what it was when the adapter call was
\* made (i the index of the failing token), and the caller holds the cache
\* it passed.
C14_FailedInvocationLeavesCounter ==
    /\ step_ct = decoded
    /\ pc = "open_failed" =>
          /\ step_ct = invLog[Len(invLog)].step_ct
          /\ step_ct = invLog[1].step_ct + i
          /\ sessions[owner].cache = c0

\* C14, amended: after any calls the step counter is the number of
\* successful invocations since the most recent call without a cache; a
\* failed invocation never counts, but one that received no cache has still
\* reset the counter to zero: after a failure at token i the counter is i if
\* the adapter call was made without a cache and i above its value at the
\* call otherwise, and the caller holds the cache it passed.
C14_CounterAfterCalls ==
    /\ step_ct = decoded
    /\ pc = "open_failed" =>
          LET first == invLog[1]
              last == invLog[Len(invLog)]
          IN  /\ step_ct = IF last.past_key_values.is_none THEN 0 ELSE last.step_ct
              /\ step_ct = (IF c0.is_none THEN 0 ELSE first.step_ct) + i
              /\ sessions[owner].cache = c0

C14_Witness ==
    /\ pc = "open_failed"
    /\ Len(call_ids) = 2
    /\ i = 1
    /\ c0.is_none
    /\ invLog[1].step_ct = 2
    /\ step_ct = 1
    /\ sessions[owner].cache = None

====
